---- MODULE Spec2Model ----
(***************************************************************************)
(* RateLimitQueue (src/src/lib.rs): a VecDeque gated by a token window.    *)
(* Durations and Instants are natural numbers of clock units; the clock    *)
(* `now` is monotonic and advanced by the environment (Tick) or by the     *)
(* sleep inside dequeue.  An Option<T> / Option<Duration> is a sequence of *)
(* length at most one.                                                     *)
(***************************************************************************)
EXTENDS Integers, Sequences, FiniteSets, TLC

\* ---- bounds of the model ----
MaxQuantum == 2
MaxInterval == 2
MaxTime == 3
MaxEnq == 3
MaxExtend == 2
\* usize is modelled UsizeBits wide (the program's is 64 wide); only the
\* wrap-around of `quantum - 1` at quantum = 0 depends on the width.
UsizeBits == 4

Quanta == 0..MaxQuantum
Durations == 0..MaxInterval
UsizeModulus == 2 ^ UsizeBits

VARIABLES
    quantum,        \* self.quantum
    interval,       \* self.interval
    queue,          \* self.queue, head first
    allowance,      \* self.allowance
    timepoint,      \* self.timepoint
    now,            \* the monotonic clock read by Instant::now()
    overflowChecks, \* the build: TRUE panics on integer overflow, FALSE wraps
    panicked,       \* "none", or the panic that ended the program
    last,           \* the last call: its name and what it returned
    enqueued,       \* history: every item ever appended, in order
    returned,       \* history: every item returned as Data / Some, in order
    dataTimes,      \* history: the clock reading of every Data / Some result
    windowData      \* history: Data results since the last re-arming of timepoint

fields == <<quantum, interval, queue, allowance, timepoint>>
history == <<enqueued, returned, dataTimes, windowData>>
vars == <<quantum, interval, queue, allowance, timepoint, now, overflowChecks,
          panicked, last, enqueued, returned, dataTimes, windowData>>

\* The struct as one value.
Self ==
    [quantum |-> quantum, interval |-> interval, queue |-> queue,
     allowance |-> allowance, timepoint |-> timepoint]

\* ---- DequeueResult<T> ----
Data(v) == [kind |-> "Data", value |-> <<v>>, dur |-> <<>>]
Empty == [kind |-> "Empty", value |-> <<>>, dur |-> <<>>]
Limit(d) == [kind |-> "Limit", value |-> <<>>, dur |-> <<d>>]
\* not a value of the type: the call panicked instead of returning
Panic == [kind |-> "Panic", value |-> <<>>, dur |-> <<>>]

\* impl From<Option<T>> for DequeueResult<T>
FromOption(opt) == IF opt = <<>> THEN Empty ELSE Data(opt[1])

\* ---- Option<T>, as dequeue returns it ----
Some(v) == [kind |-> "Some", value |-> <<v>>, dur |-> <<>>]
None == [kind |-> "None", value |-> <<>>, dur |-> <<>>]

\* the arms of the two `match`es in dequeue; `second` tells the try_dequeue after
\* the sleep, whose only arm that returns is Data
DequeueReturn(r, second) ==
    CASE r.kind = "Data" -> Some(r.value[1])
      [] r.kind = "Empty" /\ ~second -> None
      [] OTHER -> Panic

\* ---- library operations the code calls ----
\* (mutant of PopFront: pop_back, the item is taken from the tail)
PopBack(q) ==
    IF q = <<>> THEN [item |-> <<>>, rest |-> q]
    ELSE [item |-> <<q[Len(q)]>>, rest |-> SubSeq(q, 1, Len(q) - 1)]

\* VecDeque::pop_front: the removed item (None on an empty deque), the rest
PopFront(q) ==
    IF q = <<>> THEN [item |-> <<>>, rest |-> q]
    ELSE [item |-> <<Head(q)>>, rest |-> Tail(q)]

\* Instant::duration_since (saturating)
DurationSince(later, earlier) == IF later >= earlier THEN later - earlier ELSE 0

\* Duration::checked_sub
CheckedSub(a, b) == IF a >= b THEN <<a - b>> ELSE <<>>

\* usize subtraction in a build without overflow checks
WrappingSub(a, b) == (a - b) % UsizeModulus

\* Iterator::take(n) over the deque's front-to-back iterator, collected
RECURSIVE Take(_, _)
Take(q, n) ==
    IF n = 0 \/ q = <<>> THEN <<>>
    ELSE <<Head(q)>> \o Take(Tail(q), n - 1)

\* ---- try_dequeue, branch by branch ----
\* Each branch gives result: the DequeueResult (or Panic); self: the struct
\* afterwards; rolled: timepoint was re-armed.

\* `if self.allowance > 0 { self.allowance -= 1; return self.queue.pop_front().into(); }`
Consume(s) ==
    LET popped == PopFront(s.queue) IN
    [result |-> FromOption(popped.item),
     self |-> [s EXCEPT !.allowance = @ - 1, !.queue = popped.rest],
     rolled |-> FALSE]

\* (mutant of Remaining: nothing is left to wait once elapsed reaches interval)
RemainingOpen(s, nw) ==
    IF s.interval > DurationSince(nw, s.timepoint)
    THEN <<s.interval - DurationSince(nw, s.timepoint)>>
    ELSE <<>>

\* (mutant of Remaining: the elapsed time is compared but not subtracted)
RemainingWhole(s, nw) ==
    IF s.interval >= DurationSince(nw, s.timepoint) THEN <<s.interval>> ELSE <<>>

\* `self.interval.checked_sub(now.duration_since(self.timepoint))`
Remaining(s, nw) == CheckedSub(s.interval, DurationSince(nw, s.timepoint))

\* (mutant of Rollover: the idle time is banked, a quantum per unit of it)
RolloverBanked(s, nw, checks) ==
    IF s.quantum = 0 /\ checks THEN
        [result |-> Panic, self |-> s, rolled |-> FALSE]
    ELSE
        LET popped == PopFront(s.queue) IN
        [result |-> FromOption(popped.item),
         self |-> [s EXCEPT !.allowance =
                                WrappingSub(s.quantum * DurationSince(nw, s.timepoint), 1),
                            !.timepoint = nw,
                            !.queue = popped.rest],
         rolled |-> TRUE]

\* the `None =>` arm: a fresh window, one token of it spent at once
Rollover(s, nw, checks) ==
    IF s.quantum = 0 /\ checks THEN
        \* `self.quantum - 1` panics before anything is assigned
        [result |-> Panic, self |-> s, rolled |-> FALSE]
    ELSE
        LET popped == PopFront(s.queue) IN
        [result |-> FromOption(popped.item),
         self |-> [s EXCEPT !.allowance = WrappingSub(s.quantum, 1),
                            !.timepoint = nw,
                            !.queue = popped.rest],
         rolled |-> TRUE]

\* (mutant of TryDequeueOut: an elapsed window is replaced before the
\* allowance is looked at)
TryDequeueOutEager(s, nw, checks) ==
    IF s.queue = <<>> THEN [result |-> Empty, self |-> s, rolled |-> FALSE]
    ELSE IF Remaining(s, nw) = <<>> THEN Rollover(s, nw, checks)
    ELSE IF s.allowance > 0 THEN Consume(s)
    ELSE [result |-> Limit(Remaining(s, nw)[1]), self |-> s, rolled |-> FALSE]

\* (mutant of TryDequeueOut: a Limit result restarts the window)
TryDequeueOutRearm(s, nw, checks) ==
    IF s.queue = <<>> THEN [result |-> Empty, self |-> s, rolled |-> FALSE]
    ELSE IF s.allowance > 0 THEN Consume(s)
    ELSE
        LET rest == Remaining(s, nw) IN
        IF rest # <<>>
        THEN [result |-> Limit(rest[1]),
              self |-> [s EXCEPT !.timepoint = nw],
              rolled |-> FALSE]
        ELSE Rollover(s, nw, checks)

\* (mutant of TryDequeueOut: the allowance is looked at before the queue)
TryDequeueOutLimitFirst(s, nw, checks) ==
    IF s.allowance > 0 THEN
        IF s.queue = <<>> THEN [result |-> Empty, self |-> s, rolled |-> FALSE]
        ELSE Consume(s)
    ELSE
        LET rest == Remaining(s, nw) IN
        IF rest # <<>> THEN [result |-> Limit(rest[1]), self |-> s, rolled |-> FALSE]
        ELSE IF s.queue = <<>> THEN [result |-> Empty, self |-> s, rolled |-> FALSE]
        ELSE Rollover(s, nw, checks)

TryDequeueOut(s, nw, checks) ==
    IF s.queue = <<>> THEN [result |-> Empty, self |-> s, rolled |-> FALSE]
    ELSE IF s.allowance > 0 THEN Consume(s)
    ELSE
        LET rest == Remaining(s, nw) IN
        IF rest # <<>> THEN [result |-> Limit(rest[1]), self |-> s, rolled |-> FALSE]
        ELSE Rollover(s, nw, checks)

\* (mutant of IterView: the `.take(self.allowance)` is missing)
IterViewUncapped(s) == s.queue

\* the view iter() and iter_mut() give
IterView(s) == Take(s.queue, s.allowance)

\* ---- the record of a call ----
Call(op, r, out, slept) ==
    [op |-> op, kind |-> r.kind, value |-> r.value, dur |-> r.dur,
     out |-> out, slept |-> slept]

Unit == [kind |-> "Unit", value |-> <<>>, dur |-> <<>>]

\* ---- state changes shared by the removal operations ----
Store(s) ==
    /\ queue' = s.queue
    /\ allowance' = s.allowance
    /\ timepoint' = s.timepoint
    /\ UNCHANGED <<quantum, interval>>

Record(o, at) ==
    IF o.result.kind = "Data"
    THEN /\ returned' = Append(returned, o.result.value[1])
         /\ dataTimes' = Append(dataTimes, at)
         /\ windowData' = IF o.rolled THEN 1 ELSE windowData + 1
         /\ UNCHANGED enqueued
    ELSE UNCHANGED history

\* ---- RateLimitQueue::new / with_capacity ----
Init ==
    /\ quantum \in Quanta
    /\ interval \in Durations
    /\ queue = <<>>
    /\ allowance = quantum
    /\ now = 0
    /\ timepoint = now
    /\ overflowChecks \in BOOLEAN
    /\ panicked = "none"
    /\ last = Call("new", Unit, <<>>, <<>>)
    /\ enqueued = <<>>
    /\ returned = <<>>
    /\ dataTimes = <<>>
    /\ windowData = 0

\* The items given to enqueue and extend.  The code never inspects an item, so
\* each is named by its position in the order of arrival: the k-th item of the
\* call being made.  Distinct items make every reordering, loss or duplication
\* visible.
NextItem(k) == Len(enqueued) + k

\* the clock advances between calls
Tick ==
    /\ panicked = "none"
    /\ now < MaxTime
    /\ now' = now + 1
    /\ UNCHANGED <<fields, overflowChecks, panicked, last, history>>

\* (mutant of SetQuantum: the allowance is refilled to the new quantum)
SetQuantumRefill ==
    /\ panicked = "none"
    /\ \E q \in Quanta : quantum' = q /\ allowance' = q
    /\ last' = Call("set_quantum", Unit, <<>>, <<>>)
    /\ UNCHANGED <<interval, queue, timepoint, now, overflowChecks, panicked, history>>

SetQuantum ==
    /\ panicked = "none"
    /\ \E q \in Quanta : quantum' = q
    /\ last' = Call("set_quantum", Unit, <<>>, <<>>)
    /\ UNCHANGED <<interval, queue, allowance, timepoint, now, overflowChecks, panicked, history>>

SetInterval ==
    /\ panicked = "none"
    /\ \E i \in Durations : interval' = i
    /\ last' = Call("set_interval", Unit, <<>>, <<>>)
    /\ UNCHANGED <<quantum, queue, allowance, timepoint, now, overflowChecks, panicked, history>>

Enqueue ==
    /\ panicked = "none"
    /\ Len(enqueued) < MaxEnq
    /\ LET value == NextItem(1) IN
        /\ queue' = Append(queue, value)
        /\ enqueued' = Append(enqueued, value)
    /\ last' = Call("enqueue", Unit, <<>>, <<>>)
    /\ UNCHANGED <<quantum, interval, allowance, timepoint, now, overflowChecks, panicked,
                   returned, dataTimes, windowData>>

Extend ==
    /\ panicked = "none"
    /\ \E n \in 0..MaxExtend :
        LET iter == [k \in 1..n |-> NextItem(k)] IN
        /\ Len(enqueued) + n <= MaxEnq
        /\ queue' = queue \o iter
        /\ enqueued' = enqueued \o iter
    /\ last' = Call("extend", Unit, <<>>, <<>>)
    /\ UNCHANGED <<quantum, interval, allowance, timepoint, now, overflowChecks, panicked,
                   returned, dataTimes, windowData>>

TryDequeue ==
    /\ panicked = "none"
    /\ LET o == TryDequeueOut(Self, now, overflowChecks) IN
        /\ Store(o.self)
        /\ Record(o, now)
        /\ panicked' = IF o.result.kind = "Panic" THEN "overflow" ELSE "none"
        /\ last' = Call("try_dequeue", o.result, <<>>, <<>>)
    /\ UNCHANGED <<now, overflowChecks>>

\* dequeue: try_dequeue, and on Limit(rest) thread::sleep(rest) and try_dequeue
\* again.  The sleep returns at any clock reading at or after the one asked for.
Dequeue ==
    /\ panicked = "none"
    /\ UNCHANGED overflowChecks
    /\ LET first == TryDequeueOut(Self, now, overflowChecks) IN
        IF first.result.kind = "Limit"
        THEN \E wake \in (now + first.result.dur[1])..MaxTime :
                LET second == TryDequeueOut(first.self, wake, overflowChecks) IN
                /\ now' = wake
                /\ Store(second.self)
                /\ Record(second, wake)
                /\ panicked' = CASE second.result.kind = "Data" -> "none"
                                  [] second.result.kind = "Panic" -> "overflow"
                                  [] OTHER -> "unreachable"
                /\ last' = Call("dequeue", DequeueReturn(second.result, TRUE),
                                <<>>, first.result.dur)
        ELSE /\ now' = now
             /\ Store(first.self)
             /\ Record(first, now)
             /\ panicked' = IF first.result.kind = "Panic" THEN "overflow" ELSE "none"
             /\ last' = Call("dequeue", DequeueReturn(first.result, FALSE), <<>>, <<>>)

\* (mutant of Iter: the items handed out are paid for from the allowance)
IterConsuming ==
    /\ panicked = "none"
    /\ last' = Call("iter", Unit, IterView(Self), <<>>)
    /\ allowance' = allowance - Len(IterView(Self))
    /\ UNCHANGED <<quantum, interval, queue, timepoint, now, overflowChecks, panicked,
                   history>>

Iter ==
    /\ panicked = "none"
    /\ last' = Call("iter", Unit, IterView(Self), <<>>)
    /\ UNCHANGED <<fields, now, overflowChecks, panicked, history>>

\* iter_mut hands out the same capped view; writing through it is the caller's act
IterMut ==
    /\ panicked = "none"
    /\ last' = Call("iter_mut", Unit, IterView(Self), <<>>)
    /\ UNCHANGED <<fields, now, overflowChecks, panicked, history>>

Next ==
    \/ Tick
    \/ SetQuantum
    \/ SetInterval
    \/ Enqueue
    \/ Extend
    \/ TryDequeue
    \/ Dequeue
    \/ Iter
    \/ IterMut

Spec == Init /\ [][Next]_vars

\* the runs in which the policy is never retuned after construction
NextFixed ==
    \/ Tick
    \/ Enqueue
    \/ Extend
    \/ TryDequeue
    \/ Dequeue
    \/ Iter
    \/ IterMut

SpecFixed == Init /\ [][NextFixed]_vars

\* ... and the queue was constructed with a positive quantum
InitPositive == Init /\ quantum > 0

SpecPositive == InitPositive /\ [][NextFixed]_vars

\* ---- the calls, as steps ----
\* Every call names itself in `last` and, dequeue's sleep apart, reads one clock
\* value; so these tell the steps that are calls of the operation.
TryDequeueCalled == last'.op = "try_dequeue" /\ now' = now
IterCalled == last'.op \in {"iter", "iter_mut"} /\ now' = now

Elapsed == now - timepoint
Min(a, b) == IF a <= b THEN a ELSE b

\* C1 -- FIFO and no loss: in every state the items returned so far as Data /
\* Some, followed by the queue from head to tail, are the items enqueued so
\* far, in the order they were enqueued (whatever calls returned Limit or
\* Empty in between).
FifoNoLoss == returned \o queue = enqueued

\* C1 witness: items have been returned, more than one is still queued, and the
\* last call was refused with Limit.
FifoNoLossWitness ==
    /\ last.kind = "Limit"
    /\ Len(returned) >= 1
    /\ Len(queue) >= 2

\* C2 -- allowance bound: with the policy never retuned, the number of Data
\* results since construction or since the last re-arming of timepoint never
\* exceeds the quantum.
AllowanceBound == windowData <= quantum

\* C3 -- rate limit over real time: with the policy never retuned, for every
\* time t at most quantum Data results fall at times in [t, t + interval).
RateLimitRealTime ==
    \A t \in 0..MaxTime :
        Cardinality({k \in DOMAIN dataTimes :
                        t <= dataTimes[k] /\ dataTimes[k] < t + interval}) <= quantum

\* C4 -- dequeue never reaches its unreachable branch: when dequeue slept (its
\* first try_dequeue returned Limit), its second try_dequeue returned Data, so
\* dequeue returned Some.
DequeueSecondTryIsData ==
    (last.op = "dequeue" /\ last.slept # <<>>) => last.kind = "Some"

\* C5 -- rollover at the window boundary: try_dequeue called with a non-empty
\* queue, allowance = 0 and elapsed >= interval returns Data(head), removes the
\* head, sets allowance to quantum - 1 and timepoint to now.
RolloverAtBoundary ==
    [][(TryDequeueCalled /\ queue # <<>> /\ allowance = 0 /\ Elapsed >= interval)
        => /\ last'.kind = "Data"
           /\ last'.value = <<Head(queue)>>
           /\ queue' = Tail(queue)
           /\ allowance' = quantum - 1
           /\ timepoint' = now]_vars

\* C6 -- zero quantum: try_dequeue called with quantum = 0, allowance = 0 and a
\* non-empty queue neither returns Data nor panics, leaves allowance at 0 and,
\* once the interval has elapsed, re-arms timepoint.
ZeroQuantumNeverData ==
    [][(TryDequeueCalled /\ quantum = 0 /\ allowance = 0 /\ queue # <<>>)
        => /\ last'.kind = "Limit"
           /\ panicked' = "none"
           /\ allowance' = 0
           /\ (Elapsed > interval => timepoint' = now)]_vars

\* C7 -- iteration consumes allowance: when iter() has yielded `allowance` items
\* of a queue holding more than that, the next call, a try_dequeue within the
\* same interval, returns Limit.
IterConsumesAllowance ==
    [][(/\ last.op = "iter"
        /\ Len(queue) > allowance
        /\ Len(last.out) = allowance
        /\ TryDequeueCalled
        /\ Elapsed < interval)
        => last'.kind = "Limit"]_vars

CappedIteration ==
    [][IterCalled => last'.out = SubSeq(queue, 1, Min(allowance, Len(queue)))]_vars

\* C9 witness: with allowance 0 and the interval long elapsed, an iteration over
\* a non-empty queue has yielded nothing.
CappedIterationWitness ==
    /\ last.op \in {"iter", "iter_mut"}
    /\ allowance = 0
    /\ queue # <<>>
    /\ Elapsed > interval
    /\ last.out = <<>>

\* C10 -- Limit correctness: try_dequeue called with a non-empty queue,
\* allowance = 0 and elapsed < interval returns Limit(interval - elapsed), a
\* duration d with 0 < d <= interval (so neither Data nor Empty).
LimitCorrect ==
    [][(TryDequeueCalled /\ queue # <<>> /\ allowance = 0 /\ Elapsed < interval)
        => /\ last'.kind = "Limit"
           /\ last'.dur = <<interval - Elapsed>>
           /\ 0 < last'.dur[1]
           /\ last'.dur[1] <= interval]_vars

\* C10 witness: a try_dequeue made part of the way into the interval was refused
\* with the rest of it.
LimitCorrectWitness ==
    /\ last.op = "try_dequeue"
    /\ last.kind = "Limit"
    /\ queue # <<>>
    /\ allowance = 0
    /\ 0 < Elapsed
    /\ last.dur = <<interval - Elapsed>>

\* C11 -- Empty priority: try_dequeue returns Empty exactly when the queue is
\* empty at the call, whatever the allowance and the time elapsed.
EmptyPriority ==
    [][TryDequeueCalled => (last'.kind = "Empty" <=> queue = <<>>)]_vars

\* C11 witness: a try_dequeue on an empty queue, made with allowance 0 and the
\* interval not yet elapsed, has returned Empty.
EmptyPriorityWitness ==
    /\ last.op = "try_dequeue"
    /\ last.kind = "Empty"
    /\ queue = <<>>
    /\ allowance = 0
    /\ quantum > 0
    /\ Elapsed < interval

\* C12 -- allowance range: in every reachable state 0 <= allowance <= quantum.
AllowanceRange == 0 <= allowance /\ allowance <= quantum

\* a step that is a call of dequeue (a Tick leaves `last` as it is and moves the
\* clock; a dequeue that slept moves the clock and returns or panics)
DequeueCalled == last'.op = "dequeue" /\ (last' # last \/ now' = now)

\* C13 -- blocking dequeue outcome: dequeue called on an empty queue returns
\* None without sleeping; called on a non-empty queue it returns Some(head), and
\* it has slept only if its first try_dequeue returned Limit(d), and then d.
DequeueOutcome ==
    [][DequeueCalled
        => IF queue = <<>>
           THEN /\ last'.kind = "None"
                /\ last'.slept = <<>>
                /\ now' = now
           ELSE /\ last'.kind = "Some"
                /\ last'.value = <<Head(queue)>>
                /\ LET first == TryDequeueOut(Self, now, overflowChecks).result IN
                   last'.slept = first.dur]_vars

\* ---- the paced drain of tests.rs: fill a new queue, then only dequeue ----
\* nothing has been removed or looked at yet
Filling == last.op \in {"new", "enqueue", "extend"}

DrainEnqueue == Filling /\ Enqueue

DrainExtend == Filling /\ Extend

\* `while let Some(item) = queue.dequeue()` over k * quantum items, k >= 1
DrainDequeue ==
    /\ enqueued # <<>>
    /\ Len(enqueued) % quantum = 0
    /\ Dequeue

NextDrain ==
    \/ Tick
    \/ DrainEnqueue
    \/ DrainExtend
    \/ DrainDequeue

SpecDrain == InitPositive /\ [][NextDrain]_vars

\* C14 -- paced drain: with quantum >= 1, k * quantum items enqueued on a new
\* queue and then drained by dequeue calls alone are all returned (no dequeue
\* of the drain panics), in the order they were enqueued, and the item that
\* opens the (j+1)-th window, item j * quantum + 1, is returned more than
\* j * interval after construction; so the whole drain takes more than
\* (k - 1) * interval for k >= 2.  (For k = 1 the claim asks for more than no
\* time at all, which the calls take but the clock need not resolve.)
PacedDrain ==
    /\ panicked = "none"
    /\ returned = SubSeq(enqueued, 1, Len(returned))
    /\ \A j \in 1..MaxEnq :
        Len(returned) > j * quantum => dataTimes[j * quantum + 1] > j * interval

\* C15 -- no accumulation after idling: with quantum >= 1, a try_dequeue made
\* on a non-empty queue with the allowance spent and more than interval
\* elapsed, however much more, returns the head as Data and opens a window of
\* exactly one quantum, that item being its first; and every other try_dequeue
\* returns Empty on an empty queue, the head as Data while the window has
\* given fewer than quantum items, and Limit once it has given quantum items
\* and the interval has not elapsed.
NoAccumulation ==
    [][TryDequeueCalled
        => IF queue = <<>> THEN last'.kind = "Empty"
           ELSE IF allowance = 0 /\ Elapsed > interval
           THEN /\ last'.kind = "Data"
                /\ last'.value = <<Head(queue)>>
                /\ allowance' = quantum - 1
                /\ windowData' = 1
           ELSE IF windowData < quantum
           THEN /\ last'.kind = "Data"
                /\ last'.value = <<Head(queue)>>
                /\ windowData' = windowData + 1
           ELSE /\ last'.kind = "Limit"
                /\ windowData' = windowData]_vars

\* C15 witness: the first window gave its quantum, the queue idled for three
\* intervals, the window opened then gave one quantum more, and the call made
\* right after it was limited.
NoAccumulationWitness ==
    /\ last.op = "try_dequeue" /\ last.kind = "Limit"
    /\ interval > 0 /\ timepoint >= 3 * interval /\ now = timepoint
    /\ windowData = quantum /\ Len(returned) = 2 * quantum
    /\ queue # <<>>

\* C16 -- non-Data results have no effect: a try_dequeue that returns Empty or
\* Limit leaves the queue (contents and length), allowance, timepoint, quantum
\* and interval as they were, and the same call made again at the same clock
\* reading returns the same result.
NonDataNoEffect ==
    [][(TryDequeueCalled /\ last'.kind \in {"Empty", "Limit"})
        => /\ fields' = fields
           /\ Len(queue') = Len(queue)
           /\ LET again == TryDequeueOut(Self', now', overflowChecks').result IN
                /\ again.kind = last'.kind
                /\ again.dur = last'.dur
                /\ again.value = last'.value]_vars

\* C16 witness: a Limit returned part of the way through the window of a
\* positive quantum, with the time left to wait still positive.
NonDataNoEffectWitness ==
    /\ last.op = "try_dequeue" /\ last.kind = "Limit"
    /\ quantum > 0 /\ allowance = 0 /\ Len(queue) > 1
    /\ Elapsed > 0 /\ last.dur = <<interval - Elapsed>> /\ interval > Elapsed

\* the steps that are calls of enqueue, extend, set_quantum or set_interval
AppendCalled == last'.op \in {"enqueue", "extend"} /\ now' = now
SetQuantumCalled == last'.op = "set_quantum" /\ now' = now
SetIntervalCalled == last'.op = "set_interval" /\ now' = now

\* try_dequeue at clock reading nw would take the rollover arm
WouldRollover(nw) ==
    /\ queue # <<>>
    /\ allowance = 0
    /\ Remaining(Self, nw) = <<>>

\* C17 -- the token window is changed only by removal: enqueue and extend put
\* the new items at the tail, the length growing by their number, and like
\* set_quantum and set_interval leave allowance and timepoint unchanged;
\* set_quantum and set_interval leave the queue unchanged; after set_quantum a
\* try_dequeue at any later clock reading gives what it would have given
\* before, unless it is a rollover, which uses the new quantum; after
\* set_interval a try_dequeue gives what it would have given before unless it
\* is made with allowance = 0 on a non-empty queue, where the new interval
\* decides.
WindowFrame ==
    [][/\ (AppendCalled \/ SetQuantumCalled \/ SetIntervalCalled)
            => allowance' = allowance /\ timepoint' = timepoint
       /\ AppendCalled
            => LET added == Len(enqueued') - Len(enqueued) IN
               /\ (last'.op = "enqueue" => added = 1)
               /\ Len(queue') = Len(queue) + added
               /\ SubSeq(queue', 1, Len(queue)) = queue
               /\ SubSeq(queue', Len(queue) + 1, Len(queue'))
                    = SubSeq(enqueued', Len(enqueued) + 1, Len(enqueued'))
               /\ quantum' = quantum /\ interval' = interval
       /\ SetQuantumCalled
            => /\ queue' = queue /\ interval' = interval
               /\ \A nw \in now..MaxTime :
                    LET before == TryDequeueOut(Self, nw, overflowChecks)
                        after == TryDequeueOut(Self', nw, overflowChecks)
                    IN  IF WouldRollover(nw)
                        THEN after = Rollover(Self', nw, overflowChecks)
                        ELSE /\ after.result = before.result
                             /\ after.self = [before.self EXCEPT !.quantum = quantum']
       /\ SetIntervalCalled
            => /\ queue' = queue /\ quantum' = quantum
               /\ \A nw \in now..MaxTime :
                    LET before == TryDequeueOut(Self, nw, overflowChecks)
                        after == TryDequeueOut(Self', nw, overflowChecks)
                        rest == CheckedSub(interval', DurationSince(nw, timepoint))
                    IN  IF queue # <<>> /\ allowance = 0
                        THEN IF rest # <<>>
                             THEN after.result = Limit(rest[1])
                             ELSE after = Rollover(Self', nw, overflowChecks)
                        ELSE /\ after.result = before.result
                             /\ after.self = [before.self EXCEPT !.interval = interval']
      ]_vars

\* C17 witness: set_quantum lowered the quantum below the allowance left in
\* the window, on a queue that has items, and the allowance stayed.
WindowFrameWitness ==
    /\ last.op = "set_quantum"
    /\ allowance > quantum
    /\ queue # <<>>
    /\ returned # <<>>

PatientTryDequeue ==
    /\ (last.op = "try_dequeue" /\ last.kind = "Limit" => now >= timepoint + interval)
    /\ TryDequeue

Attempt ==
    \/ Dequeue
    \/ PatientTryDequeue

NextLive ==
    \/ Tick
    \/ DrainEnqueue
    \/ DrainExtend
    \/ Dequeue
    \/ PatientTryDequeue

\* time keeps advancing and the caller keeps calling
SpecLive ==
    /\ InitPositive
    /\ [][NextLive]_vars
    /\ WF_vars(Tick)
    /\ WF_vars(Attempt)

\* every item enqueued has been handed out and the caller was told so
Drained == returned = enqueued /\ last.kind \in {"Empty", "None"}

\* C20 -- drain liveness: with quantum >= 1, once the caller has begun to
\* remove (so nothing more is enqueued) and keeps calling dequeue, or
\* try_dequeue waiting out every Limit, while time advances, the caller
\* eventually has every item and then gets Empty / None -- within the clock
\* range of the model, or the clock reaches its end first.
DrainLiveness == (~Filling) ~> (Drained \/ now = MaxTime)

====
